---- MODULE Spec2Model ----
(***************************************************************************)
(* Model of the two Ansible modules of ansible-sql-runner:                 *)
(*   library/impala_query.py      (replay log, multi-statement .sql files) *)
(*   library/postgresql_query.py  (single statement, check mode)           *)
(* Texts are sequences of one-character strings.  One behaviour is a       *)
(* sequence of non-concurrent runs of one module against one query source  *)
(* and (impala) one query-log file.                                        *)
(***************************************************************************)
EXTENDS Integers, Sequences, FiniteSets, TLC

\* ------------------------------------------------------------------ bounds
MaxLen == 4
MaxRuns == 2
MaxRows == 2

Alphabet == {"a", "b", ";", "\n", " "}
Sources == UNION {[1..k -> Alphabet] : k \in 0..MaxLen}

\* the path given as `query` when the source is a file
SqlPath == <<"f", ".", "s", "q", "l">>
SqlSuffix == <<".", "s", "q", "l">>
Delimiter == <<";", "\n">>

\* ------------------------------------------------------- string functions
\* str.endswith
EndsWith(s, suf) ==
  /\ Len(s) >= Len(suf)
  /\ SubSeq(s, Len(s) - Len(suf) + 1, Len(s)) = suf

\* str.strip('\n'): every leading and trailing line break is removed
RECURSIVE LStripNL(_)
LStripNL(s) ==
  IF s # <<>> /\ Head(s) = "\n" THEN LStripNL(Tail(s)) ELSE s

RECURSIVE RStripNL(_)
RStripNL(s) ==
  IF s # <<>> /\ s[Len(s)] = "\n" THEN RStripNL(SubSeq(s, 1, Len(s) - 1)) ELSE s

StripNL(s) == RStripNL(LStripNL(s))

\* the characters the regex class \s matches, within Alphabet
IsSpace(c) == c \in {"\n", " "}

\* first index >= i of s that is not whitespace (Len(s)+1 if none)
RECURSIVE SkipSpace(_, _)
SkipSpace(s, i) ==
  IF i <= Len(s) /\ IsSpace(s[i]) THEN SkipSpace(s, i + 1) ELSE i

\* re.compile(r';\s+').sub(';\n', s), from position i on
RECURSIVE SubFrom(_, _)
SubFrom(s, i) ==
  IF i > Len(s) THEN <<>>
  ELSE IF s[i] = ";" /\ i < Len(s) /\ IsSpace(s[i + 1])
       THEN Delimiter \o SubFrom(s, SkipSpace(s, i + 1))
       ELSE <<s[i]>> \o SubFrom(s, i + 1)

ReSub(s) == SubFrom(s, 1)

\* str.split(';\n') from position i on, cur being the fragment in progress
RECURSIVE SplitFrom(_, _, _)
SplitFrom(s, i, cur) ==
  IF i > Len(s) THEN <<cur>>
  ELSE IF s[i] = ";" /\ i < Len(s) /\ s[i + 1] = "\n"
       THEN <<cur>> \o SplitFrom(s, i + 2, <<>>)
       ELSE SplitFrom(s, i + 1, Append(cur, s[i]))

SplitOnSemicolon(s) ==
  LET RECURSIVE F(_, _)
      F(i, cur) == IF i > Len(s) THEN <<cur>>
                   ELSE IF s[i] = ";" THEN <<cur>> \o F(i + 1, <<>>)
                   ELSE F(i + 1, Append(cur, s[i]))
  IN F(1, <<>>)

Split(s) == SplitFrom(s, 1, <<>>)

\* [line for line in ... if line]
NonEmpty(frags) == SelectSeq(frags, LAMBDA l : l # <<>>)

\* ';\n'.join(frags)
RECURSIVE Join(_)
Join(frags) ==
  IF frags = <<>> THEN <<>>
  ELSE IF Len(frags) = 1 THEN frags[1]
  ELSE frags[1] \o Delimiter \o Join(Tail(frags))

\* impala_query.py line 236, sql_file bound
SplitQueries(sql_file, query) ==
  IF sql_file # <<>> THEN NonEmpty(Split(ReSub(sql_file))) ELSE <<query>>

\* impala_query.py line 239
LoadExecuted(content) == NonEmpty(Split(StripNL(content)))

\* what query_log.write(query + '\n') appends
LogEntry(q) == q \o <<"\n">>

\* `x in list`
InList(x, l) == \E i \in 1..Len(l) : l[i] = x

Range(l) == {l[i] : i \in 1..Len(l)}

Count(x, l) == Cardinality({i \in 1..Len(l) : l[i] = x})

\* concatenation of the log entries of a sequence of statements
RECURSIVE Entries(_)
Entries(qs) == IF qs = <<>> THEN <<>> ELSE LogEntry(Head(qs)) \o Entries(Tail(qs))

\* ---------------------------------------------------- driver status texts
StatusTexts == { <<"SELECT", "n">>, <<"INSERT", "0", "n">>, <<"UPDATE", "n">> }

\* "SELECT" in statusmessage
ContainsSelect(status) == \E i \in 1..Len(status) : status[i] = "SELECT"

ChangedAlways(status) == TRUE

\* postgresql_query.py lines 334-337
PgChanged(status) == ~ContainsSelect(status)

MutuallyExclusiveOff(positional, named) == FALSE

\* mutually_exclusive=[["positional_args", "named_args"]]
MutuallyExclusive(positional, named) == positional /\ named

ReadFailsNever(readable) == FALSE

\* open(query, 'r') ... raises
ReadFails(readable) == ~readable

\* postgresql_query.py line 316: ansible_facts = {fact: query_results}
PgFacts(f, res) == {<<f, res>>}

\* impala_query.py lines 276-279
ImpalaFacts(f, res) == IF f # "None" THEN {<<f, res>>} ELSE {}

\* fetchall() result: the rows the cursor holds
Rows(n) == [i \in 1..n |-> i]

\* ------------------------------------------------------------------- state
VARIABLES
  module,               \* which of the two modules the runs execute
  text,                 \* the query source: file content, or the literal SQL
  run,                  \* number of the current run
  pc,                   \* position of the current run in main()
  err,                  \* failure message kind of the current run
  failJson,             \* what the fail_json call of the current run carries
  query,                \* module.params["query"] / the local `query`
  argsSupplied,         \* which of positional_args / named_args were given
  arguments,            \* the local `arguments`
  fileReadable,         \* outcome of open(query).read(): "na", "yes", "no"
  locals,               \* conditionally assigned locals that are bound
  sql_file,             \* the local `sql_file` (meaningful when bound)
  queries,              \* the local `queries`
  already_ran_queries,  \* the local `already_ran_queries`
  idx,                  \* position of the for loop in `queries`
  log,                  \* content of the query-log file
  logAtStart,           \* content of the query-log file when the run began
  query_log,            \* the log file handle: "none", "open", "closed"
  db_connection,        \* the connection: "none", "open", "closed"
  connectAttempts,      \* calls of connect() in this run
  submitted,            \* statements passed to cursor.execute in this run
  completed,            \* statements cursor.execute returned from normally
  priorRecorded,        \* statements earlier runs executed and wrote to the log
  cursorRowcount,       \* cursor.rowcount as read
  rowcount,             \* the local `rowcount`
  query_results,        \* the local `query_results`
  ansible_facts,        \* the local `ansible_facts`: set of <<key, value>>
  fact,                 \* module.params["fact"] as read, "None" when absent
  statusmessage,        \* the local `statusmessage`
  changed,              \* the local `changed`
  check_mode,           \* module.check_mode: "na" until read, "yes", "no"
  txn                   \* "none", "committed", "rolledback"

vars == <<module, text, run, pc, err, failJson, query, argsSupplied, arguments,
          fileReadable, locals, sql_file, queries, already_ran_queries, idx,
          log, logAtStart, query_log, db_connection, connectAttempts,
          submitted, completed, priorRecorded, cursorRowcount, rowcount,
          query_results, ansible_facts, fact, statusmessage, changed,
          check_mode, txn>>

\* a fail_json call that attaches neither a statement nor arguments
NoPayload ==
  [hasQuery |-> FALSE, query |-> <<>>, hasArguments |-> FALSE, query_arguments |-> "None"]

\* impala_query.py lines 255-256: msg holds the statement, query_arguments the
\* bound arguments
ImpalaFailure(q, args) ==
  [hasQuery |-> TRUE, query |-> q, hasArguments |-> TRUE, query_arguments |-> args]

\* postgresql_query.py lines 301-302: msg holds the driver's error only
PgFailure(q, args) ==
  [hasQuery |-> FALSE, query |-> <<>>, hasArguments |-> TRUE, query_arguments |-> args]

Ended == pc \in {"done", "failed", "crashed"}

Init ==
  /\ module \in {"impala", "postgresql"}
  /\ text \in Sources
  /\ run = 1
  /\ log = <<>>
  /\ logAtStart = <<>>
  /\ priorRecorded = {}
  /\ pc = "module"
  /\ err = "none"
  /\ failJson = NoPayload
  /\ query = <<>>
  /\ argsSupplied = "None"
  /\ arguments = "None"
  /\ fileReadable = "na"
  /\ locals = {}
  /\ sql_file = <<>>
  /\ queries = <<>>
  /\ already_ran_queries = <<>>
  /\ idx = 1
  /\ query_log = "none"
  /\ db_connection = "none"
  /\ connectAttempts = 0
  /\ submitted = <<>>
  /\ completed = <<>>
  /\ cursorRowcount = -1
  /\ rowcount = 0
  /\ query_results = <<>>
  /\ ansible_facts = {}
  /\ fact = "None"
  /\ statusmessage = <<>>
  /\ changed = FALSE
  /\ check_mode = "na"
  /\ txn = "none"

\* module.fail_json(msg=...) with no statement and no arguments attached: the
\* process exits with a failure
Fail(kind) == pc' = "failed" /\ err' = kind /\ failJson' = NoPayload

\* module.fail_json(...) of a rejected statement, carrying `payload`
FailExecute(payload) ==
  pc' = "failed" /\ err' = "StatementExecutionFailed" /\ failJson' = payload

\* an exception nothing catches: the process dies with a traceback
Crash(kind) == pc' = "crashed" /\ err' = kind /\ failJson' = failJson

Supplied(positional, named) ==
  IF positional /\ named THEN "both"
  ELSE IF positional THEN "positional" ELSE IF named THEN "named" ELSE "None"

\* the `# prepare args` if/elif of both modules
Arguments(supplied) ==
  IF supplied \in {"both", "positional"} THEN "positional" ELSE supplied

\* --------------------------------------------------- steps of both modules
\* AnsibleModule(argument_spec, mutually_exclusive=...), the library check
\* and query = module.params["query"]
ModuleInit ==
  /\ pc = "module"
  /\ \E positional \in BOOLEAN, named \in BOOLEAN, isFile \in BOOLEAN, hasLib \in BOOLEAN :
       /\ argsSupplied' = Supplied(positional, named)
       /\ IF MutuallyExclusive(positional, named)
          THEN /\ Fail("ConfigurationConflict")
               /\ UNCHANGED query
          ELSE IF ~hasLib
          THEN /\ Fail("LibraryMissing")
               /\ UNCHANGED query
          ELSE /\ pc' = "connect"
               /\ query' = IF isFile THEN SqlPath ELSE text
               /\ UNCHANGED <<err, failJson>>
  /\ UNCHANGED <<module, text, run, arguments, fileReadable, locals,
                 sql_file, queries, already_ran_queries, idx, log,
                 logAtStart, query_log, db_connection, connectAttempts,
                 submitted, completed, priorRecorded, cursorRowcount,
                 rowcount, query_results, ansible_facts, fact, statusmessage,
                 changed, check_mode, txn>>

\* db_connection = connect(**kw); cursor = db_connection.cursor(...)
Connect ==
  /\ pc = "connect"
  /\ connectAttempts' = connectAttempts + 1
  /\ \E ok \in BOOLEAN :
       IF ok
       THEN /\ db_connection' = "open"
            /\ pc' = "source"
            /\ UNCHANGED <<err, failJson>>
       ELSE /\ Fail("ConnectionFailed")
            /\ UNCHANGED db_connection
  /\ UNCHANGED <<module, text, run, query, argsSupplied, arguments,
                 fileReadable, locals, sql_file, queries,
                 already_ran_queries, idx, log, logAtStart, query_log,
                 submitted, completed, priorRecorded, cursorRowcount,
                 rowcount, query_results, ansible_facts, fact, statusmessage,
                 changed, check_mode, txn>>

\* ------------------------------------------------------------ impala_query
\* if query.endswith('.sql'): sql_file = fh.read().strip('\n')
ImpalaResolveSource ==
  /\ pc = "source"
  /\ module = "impala"
  /\ IF EndsWith(query, SqlSuffix)
     THEN \E readable \in BOOLEAN :
            /\ fileReadable' = IF readable THEN "yes" ELSE "no"
            /\ IF ReadFails(readable)
               THEN /\ Fail("SourceUnavailable")
                    /\ UNCHANGED <<sql_file, locals>>
               ELSE /\ sql_file' = StripNL(text)
                    /\ locals' = locals \cup {"sql_file"}
                    /\ pc' = "openlog"
                    /\ UNCHANGED <<err, failJson>>
     ELSE /\ pc' = "openlog"
          /\ UNCHANGED <<err, failJson, fileReadable, sql_file, locals>>
  /\ UNCHANGED <<module, text, run, query, argsSupplied, arguments, queries,
                 already_ran_queries, idx, log, logAtStart, query_log,
                 db_connection, connectAttempts, submitted, completed,
                 priorRecorded, cursorRowcount, rowcount, query_results,
                 ansible_facts, fact, statusmessage, changed, check_mode,
                 txn>>

\* the query_log parameter check, open(query_log, 'a+') and seek(0)
ImpalaOpenLog ==
  /\ pc = "openlog"
  /\ \E given \in BOOLEAN, ok \in BOOLEAN :
       IF ~given
       THEN /\ Fail("NoQueryLog")
            /\ UNCHANGED query_log
       ELSE IF ~ok
       THEN /\ Fail("LogUnavailable")
            /\ UNCHANGED query_log
       ELSE /\ query_log' = "open"
            /\ pc' = "split"
            /\ UNCHANGED <<err, failJson>>
  /\ UNCHANGED <<module, text, run, query, argsSupplied, arguments,
                 fileReadable, locals, sql_file, queries,
                 already_ran_queries, idx, log, logAtStart, db_connection,
                 connectAttempts, submitted, completed, priorRecorded,
                 cursorRowcount, rowcount, query_results, ansible_facts,
                 fact, statusmessage, changed, check_mode, txn>>

\* arguments = None; queries = [...] if sql_file else [query]
ImpalaSplitQueries ==
  /\ pc = "split"
  /\ arguments' = "None"
  /\ IF "sql_file" \in locals
     THEN /\ queries' = SplitQueries(sql_file, query)
          /\ pc' = "load"
          /\ UNCHANGED <<err, failJson>>
     ELSE /\ Crash("UnboundLocalError")
          /\ UNCHANGED queries
  /\ UNCHANGED <<module, text, run, query, argsSupplied, fileReadable,
                 locals, sql_file, already_ran_queries, idx, log, logAtStart,
                 query_log, db_connection, connectAttempts, submitted,
                 completed, priorRecorded, cursorRowcount, rowcount,
                 query_results, ansible_facts, fact, statusmessage, changed,
                 check_mode, txn>>

\* already_ran_queries = [... query_log.read().strip('\n').split(';\n') ...]
ImpalaLoadExecuted ==
  /\ pc = "load"
  /\ already_ran_queries' = LoadExecuted(log)
  /\ idx' = 1
  /\ pc' = "loop"
  /\ UNCHANGED <<module, text, run, err, failJson, query, argsSupplied,
                 arguments, fileReadable, locals, sql_file, queries, log,
                 logAtStart, query_log, db_connection, connectAttempts,
                 submitted, completed, priorRecorded, cursorRowcount,
                 rowcount, query_results, ansible_facts, fact, statusmessage,
                 changed, check_mode, txn>>

\* loop body when `query not in already_ran_queries` is false
ImpalaSkip ==
  /\ pc = "loop"
  /\ idx <= Len(queries)
  /\ InList(queries[idx], already_ran_queries)
  /\ idx' = idx + 1
  /\ UNCHANGED <<module, text, run, pc, err, failJson, query, argsSupplied,
                 arguments, fileReadable, locals, sql_file, queries,
                 already_ran_queries, log, logAtStart, query_log,
                 db_connection, connectAttempts, submitted, completed,
                 priorRecorded, cursorRowcount, rowcount, query_results,
                 ansible_facts, fact, statusmessage, changed, check_mode,
                 txn>>

\* prepare args; cursor.execute(query, arguments), or the except branch
ImpalaExecute ==
  /\ pc = "loop"
  /\ idx <= Len(queries)
  /\ ~InList(queries[idx], already_ran_queries)
  /\ arguments' = IF argsSupplied = "None" THEN arguments ELSE Arguments(argsSupplied)
  /\ submitted' = Append(submitted, queries[idx])
  /\ \E ok \in BOOLEAN :
       IF ok
       THEN /\ completed' = Append(completed, queries[idx])
            /\ pc' = "record"
            /\ UNCHANGED <<err, failJson>>
       ELSE /\ FailExecute(ImpalaFailure(queries[idx], arguments'))
            /\ UNCHANGED completed
  /\ UNCHANGED <<module, text, run, query, argsSupplied, fileReadable,
                 locals, sql_file, queries, already_ran_queries, idx, log,
                 logAtStart, query_log, db_connection, connectAttempts,
                 priorRecorded, cursorRowcount, rowcount, query_results,
                 ansible_facts, fact, statusmessage, changed, check_mode,
                 txn>>

ImpalaRecordSkipped ==
  /\ pc = "record"
  /\ idx' = idx + 1
  /\ pc' = "loop"
  /\ UNCHANGED <<module, text, run, err, failJson, query, argsSupplied,
                 arguments, fileReadable, locals, sql_file, queries,
                 already_ran_queries, log, logAtStart, query_log,
                 db_connection, connectAttempts, submitted, completed,
                 priorRecorded, cursorRowcount, rowcount, query_results,
                 ansible_facts, fact, statusmessage, changed, check_mode,
                 txn>>

\* query_log.write(query + '\n'), then the next iteration
ImpalaRecordExecuted ==
  /\ pc = "record"
  /\ log' = log \o LogEntry(queries[idx])
  /\ idx' = idx + 1
  /\ pc' = "loop"
  /\ UNCHANGED <<module, text, run, err, failJson, query, argsSupplied,
                 arguments, fileReadable, locals, sql_file, queries,
                 already_ran_queries, logAtStart, query_log, db_connection,
                 connectAttempts, submitted, completed, priorRecorded,
                 cursorRowcount, rowcount, query_results, ansible_facts,
                 fact, statusmessage, changed, check_mode, txn>>

\* the loop is exhausted: if query_log: query_log.close()
ImpalaCloseLog ==
  /\ pc = "loop"
  /\ idx > Len(queries)
  /\ query_log' = "closed"
  /\ pc' = "report"
  /\ UNCHANGED <<module, text, run, err, failJson, query, argsSupplied,
                 arguments, fileReadable, locals, sql_file, queries,
                 already_ran_queries, idx, log, logAtStart, db_connection,
                 connectAttempts, submitted, completed, priorRecorded,
                 cursorRowcount, rowcount, query_results, ansible_facts,
                 fact, statusmessage, changed, check_mode, txn>>

\* ansible_facts = {}; query_results = []; if cursor.rowcount > 0: ... else: ...
ImpalaReport ==
  /\ pc = "report"
  /\ module = "impala"
  /\ locals' = locals \cup {"ansible_facts"}
  /\ \E rc \in -1..MaxRows, fetchOk \in BOOLEAN, f \in {"None", "my_key"} :
       /\ cursorRowcount' = rc
       /\ IF rc > 0
          THEN IF fetchOk
               THEN /\ query_results' = Rows(rc)
                    /\ rowcount' = Len(Rows(rc))
                    /\ fact' = f
                    /\ ansible_facts' = ImpalaFacts(f, Rows(rc))
                    /\ pc' = "finish"
                    /\ UNCHANGED <<err, failJson>>
               ELSE \* `except impala.error.ProgrammingError`: impala is not bound
                    /\ Crash("NameError")
                    /\ query_results' = <<>>
                    /\ ansible_facts' = {}
                    /\ UNCHANGED <<rowcount, fact>>
          ELSE /\ fetchOk
               /\ f = "None"
               /\ query_results' = <<>>
               /\ ansible_facts' = {}
               /\ rowcount' = 0
               /\ pc' = "finish"
               /\ UNCHANGED <<err, failJson, fact>>
  /\ UNCHANGED <<module, text, run, query, argsSupplied, arguments,
                 fileReadable, sql_file, queries, already_ran_queries, idx,
                 log, logAtStart, query_log, db_connection, connectAttempts,
                 submitted, completed, priorRecorded, statusmessage, changed,
                 check_mode, txn>>

\* statusmessage = cursor.status(); changed = True; commit(); close(); exit_json
ImpalaFinish ==
  /\ pc = "finish"
  /\ module = "impala"
  /\ \E status \in StatusTexts : statusmessage' = status
  /\ changed' = TRUE
  /\ txn' = "committed"
  /\ db_connection' = "closed"
  /\ pc' = "done"
  /\ UNCHANGED <<module, text, run, err, failJson, query, argsSupplied,
                 arguments, fileReadable, locals, sql_file, queries,
                 already_ran_queries, idx, log, logAtStart, query_log,
                 connectAttempts, submitted, completed, priorRecorded,
                 cursorRowcount, rowcount, query_results, ansible_facts,
                 fact, check_mode>>

\* -------------------------------------------------------- postgresql_query
\* if query.endswith('.sql'): query = open(query, 'r').read().strip('\n')
PgResolveSource ==
  /\ pc = "source"
  /\ module = "postgresql"
  /\ IF EndsWith(query, SqlSuffix)
     THEN \E readable \in BOOLEAN :
            /\ fileReadable' = IF readable THEN "yes" ELSE "no"
            /\ IF ReadFails(readable)
               THEN /\ Fail("SourceUnavailable")
                    /\ UNCHANGED query
               ELSE /\ query' = StripNL(text)
                    /\ pc' = "execute"
                    /\ UNCHANGED <<err, failJson>>
     ELSE /\ pc' = "execute"
          /\ UNCHANGED <<err, failJson, fileReadable, query>>
  /\ UNCHANGED <<module, text, run, argsSupplied, arguments, locals,
                 sql_file, queries, already_ran_queries, idx, log,
                 logAtStart, query_log, db_connection, connectAttempts,
                 submitted, completed, priorRecorded, cursorRowcount,
                 rowcount, query_results, ansible_facts, fact, statusmessage,
                 changed, check_mode, txn>>

\* arguments = None; prepare args; cursor.execute(query, arguments)
PgExecute ==
  /\ pc = "execute"
  /\ arguments' = Arguments(argsSupplied)
  /\ submitted' = Append(submitted, query)
  /\ \E ok \in BOOLEAN :
       IF ok
       THEN /\ completed' = Append(completed, query)
            /\ pc' = "report"
            /\ UNCHANGED <<err, failJson>>
       ELSE /\ FailExecute(PgFailure(query, arguments'))
            /\ UNCHANGED completed
  /\ UNCHANGED <<module, text, run, query, argsSupplied, fileReadable,
                 locals, sql_file, queries, already_ran_queries, idx, log,
                 logAtStart, query_log, db_connection, connectAttempts,
                 priorRecorded, cursorRowcount, rowcount, query_results,
                 ansible_facts, fact, statusmessage, changed, check_mode,
                 txn>>

\* query_results = []; if cursor.rowcount > 0: ... else: rowcount = 0
PgReport ==
  /\ pc = "report"
  /\ module = "postgresql"
  /\ \E rc \in -1..MaxRows, fetchOk \in BOOLEAN, f \in {"None", "my_key"} :
       /\ cursorRowcount' = rc
       /\ IF rc > 0
          THEN LET res == IF fetchOk THEN Rows(rc) ELSE <<>>
               IN /\ query_results' = res
                  /\ rowcount' = Len(res)
                  /\ fact' = f
                  /\ ansible_facts' = PgFacts(f, res)
                  /\ locals' = locals \cup {"ansible_facts"}
          ELSE /\ fetchOk
               /\ f = "None"
               /\ query_results' = <<>>
               /\ rowcount' = 0
               /\ UNCHANGED <<fact, ansible_facts, locals>>
  /\ pc' = "finish"
  /\ UNCHANGED <<module, text, run, err, failJson, query, argsSupplied,
                 arguments, fileReadable, sql_file, queries,
                 already_ran_queries, idx, log, logAtStart, query_log,
                 db_connection, connectAttempts, submitted, completed,
                 priorRecorded, statusmessage, changed, check_mode, txn>>

\* statusmessage; changed; rollback or commit; close(); exit_json(...)
PgFinish ==
  /\ pc = "finish"
  /\ module = "postgresql"
  /\ \E status \in StatusTexts, cm \in BOOLEAN :
       /\ statusmessage' = status
       /\ changed' = PgChanged(status)
       /\ check_mode' = IF cm THEN "yes" ELSE "no"
       /\ txn' = IF PgChanged(status)
                 THEN IF cm THEN "rolledback" ELSE "committed"
                 ELSE "none"
  /\ db_connection' = "closed"
  /\ IF "ansible_facts" \in locals
     THEN pc' = "done" /\ UNCHANGED <<err, failJson>>
     ELSE Crash("UnboundLocalError")
  /\ UNCHANGED <<module, text, run, query, argsSupplied, arguments,
                 fileReadable, locals, sql_file, queries,
                 already_ran_queries, idx, log, logAtStart, query_log,
                 connectAttempts, submitted, completed, priorRecorded,
                 cursorRowcount, rowcount, query_results, ansible_facts,
                 fact>>

\* ------------------------------------------------------------ the next run
\* the automation is run again: a new process enters main(); the query
\* source and the query-log file are what the previous run left
NextRun ==
  /\ Ended
  /\ run < MaxRuns
  /\ run' = run + 1
  /\ priorRecorded' = IF module = "impala"
                      THEN priorRecorded \cup Range(completed)
                      ELSE priorRecorded
  /\ logAtStart' = log
  /\ pc' = "module"
  /\ err' = "none"
  /\ failJson' = NoPayload
  /\ query' = <<>>
  /\ argsSupplied' = "None"
  /\ arguments' = "None"
  /\ fileReadable' = "na"
  /\ locals' = {}
  /\ sql_file' = <<>>
  /\ queries' = <<>>
  /\ already_ran_queries' = <<>>
  /\ idx' = 1
  /\ query_log' = "none"
  /\ db_connection' = "none"
  /\ connectAttempts' = 0
  /\ submitted' = <<>>
  /\ completed' = <<>>
  /\ cursorRowcount' = -1
  /\ rowcount' = 0
  /\ query_results' = <<>>
  /\ ansible_facts' = {}
  /\ fact' = "None"
  /\ statusmessage' = <<>>
  /\ changed' = FALSE
  /\ check_mode' = "na"
  /\ txn' = "none"
  /\ UNCHANGED <<module, text, log>>

Next ==
  \/ ModuleInit
  \/ Connect
  \/ ImpalaResolveSource
  \/ ImpalaOpenLog
  \/ ImpalaSplitQueries
  \/ ImpalaLoadExecuted
  \/ ImpalaSkip
  \/ ImpalaExecute
  \/ ImpalaRecordExecuted
  \/ ImpalaCloseLog
  \/ ImpalaReport
  \/ ImpalaFinish
  \/ PgResolveSource
  \/ PgExecute
  \/ PgReport
  \/ PgFinish
  \/ NextRun

Spec == Init /\ [][Next]_vars

\* ----------------------------------------------------------------- claims
\* the statements of this run that are written to the log so far
Recorded == IF pc = "record" THEN SubSeq(completed, 1, Len(completed) - 1) ELSE completed

\* the impala run has computed `queries` from a file it read
QueriesDerived ==
  /\ module = "impala"
  /\ "sql_file" \in locals
  /\ pc \notin {"openlog", "split"}
  /\ err \notin {"NoQueryLog", "LogUnavailable"}

NoEmptyFragment(s) == \A i \in 1..Len(Split(ReSub(s))) : Split(ReSub(s))[i] # <<>>

\* C1: a statement that an earlier run executed successfully and recorded in
\* the shared query log is not submitted to the database by a later run.
C1_RecordedNotResubmitted ==
  \A i \in 1..Len(submitted) : submitted[i] \notin priorRecorded

\* C2: after a successful impala run every statement of the source that was
\* not in the log when the run began is in the log exactly once.
C2_LoggedExactlyOnce ==
  (module = "impala" /\ pc = "done") =>
    \A i \in 1..Len(queries) :
      ~InList(queries[i], LoadExecuted(logAtStart)) =>
        Count(queries[i], LoadExecuted(log)) = 1

\* C3: a run given both positional_args and named_args has failed with the
\* configuration conflict, with no connection attempt and nothing submitted.
C3_ConflictBeforeConnect ==
  argsSupplied = "both" =>
    /\ pc = "failed"
    /\ err = "ConfigurationConflict"
    /\ connectAttempts = 0
    /\ db_connection = "none"
    /\ submitted = <<>>

C3_Witness ==
  /\ argsSupplied = "both"
  /\ pc = "failed"
  /\ err = "ConfigurationConflict"

\* C4 as stated: when the run fails because the .sql file cannot be read, no
\* connect event has happened.
C4_SourceFailsBeforeConnect ==
  err = "SourceUnavailable" => connectAttempts = 0

\* C4 amended: when the .sql file cannot be read the run has failed with the
\* source-unavailable error after exactly one connect event, with the
\* connection open, before the query log is opened and before any statement
\* is submitted.
C4_SourceFailsAfterConnect ==
  fileReadable = "no" =>
    /\ pc = "failed"
    /\ err = "SourceUnavailable"
    /\ connectAttempts = 1
    /\ db_connection = "open"
    /\ query_log = "none"
    /\ submitted = <<>>

C4_Witness ==
  /\ fileReadable = "no"
  /\ err = "SourceUnavailable"
  /\ connectAttempts = 1

\* C5: a postgresql run whose statement executed with driver row count 0 and
\* a status text containing SELECT ends successfully with change flag false,
\* an empty result sequence and row count 0.
C5_SelectZeroRowsSucceeds ==
  ( /\ module = "postgresql"
    /\ Ended
    /\ completed # <<>>
    /\ cursorRowcount = 0
    /\ ContainsSelect(statusmessage) ) =>
    /\ pc = "done"
    /\ changed = FALSE
    /\ query_results = <<>>
    /\ rowcount = 0

\* C6: after a run whose final statement returned rows, the fact mapping is
\* exactly {fact name -> rows} when a fact name was supplied, and empty when
\* none was supplied.
C6_FactMapping ==
  (pc = "done" /\ cursorRowcount > 0 /\ query_results # <<>>) =>
    IF fact # "None"
    THEN ansible_facts = {<<fact, query_results>>}
    ELSE ansible_facts = {}

\* C7: a run given literal SQL that ends otherwise than by a reported failure
\* has submitted exactly the query text, once (in impala: nothing when the
\* text is in the replay log).
C7_LiteralIsOneStatement ==
  (fileReadable = "na" /\ pc \in {"done", "crashed"}) =>
    IF module = "impala" /\ InList(text, LoadExecuted(logAtStart))
    THEN submitted = <<>>
    ELSE submitted = <<text>>

C9_ChangeAndTransaction ==
  pc = "done" =>
    IF module = "postgresql"
    THEN /\ changed = ~ContainsSelect(statusmessage)
         /\ changed => txn = (IF check_mode = "yes" THEN "rolledback" ELSE "committed")
    ELSE /\ changed = TRUE
         /\ txn = "committed"

C9_Witness ==
  /\ pc = "done"
  /\ module = "postgresql"
  /\ changed
  /\ check_mode = "yes"
  /\ txn = "rolledback"

\* C10: in an impala run the text appended to the query log is, at every
\* step, the entries of the statements whose execution succeeded, in order;
\* only the statement confirmed last may still be unwritten, and it is
\* written before anything else is submitted; failed and skipped statements
\* are never written.
C10_LogIsCompleted ==
  module = "impala" =>
    /\ log = logAtStart \o Entries(Recorded)
    /\ pc = "record" => completed # <<>> /\ completed[Len(completed)] = queries[idx]
    /\ Len(submitted) = Len(completed) + (IF err = "StatementExecutionFailed" THEN 1 ELSE 0)
    /\ \A i \in 1..Len(completed) : completed[i] = submitted[i]
    /\ pc = "loop" => Recorded = completed

C10_Witness ==
  /\ module = "impala"
  /\ err = "StatementExecutionFailed"
  /\ Len(completed) = 1
  /\ Len(submitted) = 2
  /\ log = logAtStart \o LogEntry(completed[1])
  /\ Len(already_ran_queries) > 0

\* C11: when the database rejects a statement the run has failed at once: the
\* rejected statement is the last one submitted, and the failure carries its
\* text and the bound arguments.
C11_FailureCarriesStatement ==
  err = "StatementExecutionFailed" =>
    /\ pc = "failed"
    /\ Len(submitted) = Len(completed) + 1
    /\ failJson.hasQuery
    /\ failJson.query = submitted[Len(submitted)]
    /\ failJson.hasArguments
    /\ failJson.query_arguments = Arguments(argsSupplied)

\* C12: when a run has ended, on whatever path, neither the database
\* connection nor the query-log file handle it opened is left open.
C12_ResourcesClosed ==
  Ended => (db_connection # "open" /\ query_log # "open")

====
